---- MODULE Spec2Model ----
(***************************************************************************)
(* State-machine model of gallery/static/js/jquery.fileupload-ui-extended.js*)
(* (the blueimp.fileupload widget extension of django-gallery-widget).      *)
(*                                                                          *)
(* The DOM is the state: the files container and the deleted container are  *)
(* sequences of items in DOM order, the two hidden inputs hold text, the    *)
(* button bar holds the display/disabled properties the handlers set.       *)
(* Handlers are operators from a widget state (a record) to a widget state, *)
(* composed in the order of the statements of the source; one action of the *)
(* model is one browser task (one event dispatch with everything it calls). *)
(*                                                                          *)
(* Environment (not in this file, modelled from its documented behaviour):  *)
(* the blueimp jquery.fileupload-ui base handlers add/done/fail/destroy,    *)
(* jQuery UI _trigger, Bootstrap modal, cropper, $.ajax and setTimeout.     *)
(* Templates (not in this file) are taken to render one .preview per item   *)
(* whose data-* attributes are the file record, with the drag handle        *)
(* visible; the row of a failed upload carries no .preview (record 0); the  *)
(* crop buttons are rendered disabled. Where the base done and fail         *)
(* handlers fade the old node out before they replace it, the model         *)
(* replaces it at once and keeps the transition of the new node.            *)
(*                                                                          *)
(* The cropper's scale buttons are taken to be .btn elements of the button  *)
(* div outside the status and rotate groups. A blob handed to the base add  *)
(* handler is a new file with a record of its own.                          *)
(*                                                                          *)
(* Specifications:                                                          *)
(*   Spec         the upload list (add, upload, fail, delete, undelete,     *)
(*                reorder) of a widget created with the default options     *)
(*                (enableSortable: true), with and without CSS transitions, *)
(*                with or without a caller-supplied sortable update         *)
(*                callback, and with a page listener that prevents nothing  *)
(*                or every event of one name;                               *)
(*   SpecInputs   the same actions from a page whose hidden inputs may      *)
(*                carry the initializing mark, with and without a           *)
(*                caller-supplied filesDataToInputDataFunction;             *)
(*   SpecModal    the edit modal and cropper in download mode on a page     *)
(*                with one uploaded file: sessions, toolbar clicks, crop    *)
(*                gestures, crop POSTs, their responses, auto-hide timers;  *)
(*   SpecCrop     the edit modal in upload mode on a page with two files    *)
(*                waiting for upload: crop commits, the toBlob callbacks    *)
(*                that re-add the cropped image, uploads that complete;     *)
(*   SpecCropLive SpecCrop with the toBlob callbacks weakly fair;           *)
(*   SpecCropper  the cropper toolbar (rotate, scale, reset, gestures) of   *)
(*                one session after another;                                *)
(*   SpecSortable _initSortable applied to every caller-supplied            *)
(*                sortableOptions and sortableHandleSelector;               *)
(*   SpecNoSortable the actions of Spec for enableSortable: false;          *)
(*   SpecObserved the actions of Spec on a page whose listener is bound to  *)
(*                every event and records the page it finds;                *)
(*   SpecEdit     edit clicks on pending uploads whose templates carry the  *)
(*                upload data, upload data without the original file, or    *)
(*                none;                                                     *)
(*   SpecNoContext the actions of Spec plus a destroyed event whose data    *)
(*                carries no context.                                       *)
(***************************************************************************)
EXTENDS Integers, Sequences, FiniteSets, TLC

\* Bound: the number of DOM items (files container + deleted container,
\* counting the copies a pending repeated undelete will add).
MaxItems == 2

\* Bound: the number of edit-modal sessions (edit clicks) of a run.
MaxSessions == 3

\* The most DOM items of the page on which uploads are cropped: the two it
\* starts with and one row per crop commit.
MaxCropItems == MaxSessions + 2

VARIABLES
    filesContainer,        \* options.filesContainer: Seq of items, DOM order
    deletedFilesContainer, \* options.deletedFilesContainer: Seq of deleted items
    hiddenFileInput,       \* options.hiddenFileInput: [val, initializing]
    hiddenDeletedInput,    \* options.hiddenDeletedInput: [val, initializing]
    buttonBar,             \* .fileupload-buttonbar: start/cancel and delete/toggle
    fired,                 \* the events triggered by the last task, in order
    cssTransition,         \* $.support.transition and templates carry "fade"
    enableSortable,        \* options.enableSortable
    sortableOptions,       \* options.sortableOptions: the caller's object, a function
                           \*     from option names to values (empty: none supplied)
    sortableHandleSelector, \* options.sortableHandleSelector: [kind, selector]
    sortable,              \* the sortable of the files container: [created, options]
    listener,              \* the event names a page listener default-prevents,
                           \*     or "observer": it prevents none and looks on
    inputDataFunction,     \* options.filesDataToInputDataFunction: "undefined" or "caller"
    reclicked,             \* history: records whose deleted node was undeleted twice
    editModal,             \* options.editModalId: [state, dataNew, attrNew]
    editImg,               \* options.editModalImgId: [src, submitData,
                           \*     processCroppedCanvas, cropper]
    closure,               \* _initEditModalEventHandler: [editType, croppStartingData]
    cropperButtons,        \* the .btn groups of cropperButtonDivSelector: disabled?
                           \*     and the data-option of the scale buttons
    messageBox,            \* cropperResultMessageBoxSelector: its html
    ajax,                  \* the crop POSTs in flight, in the order issued
    timers,                \* the pending setTimeout callbacks of submitData
    blobs,                 \* the pending toBlob callbacks of processCroppedCanvas
    session,               \* history: the number of edit-modal sessions started
    lastHide               \* history: what hid the modal last

widgetVars == <<filesContainer, deletedFilesContainer, hiddenFileInput,
                hiddenDeletedInput, buttonBar, fired, cssTransition, enableSortable,
                sortableOptions, sortableHandleSelector, sortable, listener,
                inputDataFunction, reclicked>>

modalVars == <<editModal, editImg, closure, cropperButtons, messageBox, ajax,
               timers, blobs, session, lastHide>>

vars == <<widgetVars, modalVars>>

-----------------------------------------------------------------------------
\* Values

\* JSON.stringify(files): the text of a JSON array of records.
JSONstringify(files) == [text |-> "json", files |-> files]

\* The empty string "".
EmptyString == [text |-> "", files |-> <<>>]

\* A rendered template-upload / template-download item. fading names the done
\* event whose transition callback is pending on the node ("" when none);
\* btnDisabled: the item's .btn elements are disabled; replaceChild: the record
\* of the node that data.replaceChild of the item's data names (0: not set);
\* data: what template.data("data") holds: "original" (the upload data, with
\* the original file of the item's file name among its originalFiles, as the
\* add handler attaches it), "unmatched" (upload data whose originalFiles
\* hold no file of that name) or "absent" (no upload data).
Item(cls, rec, fading) ==
    [cls |-> cls, rec |-> rec, processing |-> FALSE, handleHidden |-> FALSE,
     fading |-> fading, btnDisabled |-> FALSE, replaceChild |-> 0,
     data |-> "original"]

\* A rendered template-deleted item; cbs are the transition-end callbacks
\* registered on the node, in registration order.
DeletedItem(rec, cbs) == [rec |-> rec, cbs |-> cbs]

\* The events a page listener can default-prevent before the handler runs.
Preventable ==
    {"added", "replace", "failed", "completed", "destroyed", "undelete",
     "sortableUpdate", "done"}

\* The page's listeners: they prevent nothing, or every event of one name.
PreventChoices == {{}} \cup {{e} : e \in Preventable}

RemoveAt(seq, i) == SubSeq(seq, 1, i - 1) \o SubSeq(seq, i + 1, Len(seq))

InsertAt(seq, i, x) == SubSeq(seq, 1, i - 1) \o <<x>> \o SubSeq(seq, i, Len(seq))

Range(seq) == {seq[i] : i \in 1..Len(seq)}

Count(seq, x) == Cardinality({i \in 1..Len(seq) : seq[i] = x})

\* The widget state as one record, as the handlers see it.
State ==
    [files |-> filesContainer, deleted |-> deletedFilesContainer,
     kept |-> hiddenFileInput, del |-> hiddenDeletedInput,
     bar |-> buttonBar, fired |-> <<>>, error |-> FALSE,
     reclicked |-> reclicked]

UsedRecs(s) ==
    {s.files[i].rec : i \in 1..Len(s.files)}
    \cup {s.deleted[i].rec : i \in 1..Len(s.deleted)}

\* A record carried by no item of the page.
FreshRec(s) == CHOOSE r \in 1..(Cardinality(UsedRecs(s)) + 1) : r \notin UsedRecs(s)

UndeleteCbs(d) == Cardinality({i \in 1..Len(d.cbs) : d.cbs[i] = "undelete"})

RECURSIVE ExtraCopies(_)
ExtraCopies(deleted) ==
    IF deleted = <<>> THEN 0
    ELSE (IF UndeleteCbs(Head(deleted)) > 1 THEN UndeleteCbs(Head(deleted)) - 1 ELSE 0)
         + ExtraCopies(Tail(deleted))

Population(s) == Len(s.files) + Len(s.deleted) + ExtraCopies(s.deleted)

-----------------------------------------------------------------------------
\* jQuery UI _trigger: the event is logged; a listener may have prevented it.

\* What a listener finds on the page when it is called. It is recorded for the
\* page whose listener ("observer") is bound to every event, prevents none and
\* looks at the page.
Seen(s) ==
    IF "observer" \in listener
    THEN [files |-> s.files, deleted |-> s.deleted, kept |-> s.kept, del |-> s.del,
          bar |-> s.bar]
    ELSE <<>>

Trigger(s, ev, prev, rec, by) ==
    IF s.error THEN s
    ELSE [s EXCEPT !.fired = Append(@, [ev |-> ev, prevented |-> ev \in prev,
                                        rec |-> rec, by |-> by, sees |-> Seen(s)])]

-----------------------------------------------------------------------------
\* Sortable Integration

\* No sortableOptions (undefined, or an object without properties).
NoOptions == [name \in {} |-> ""]

\* _initSortableHandleSelector: the default for undefined, the .selector of a
\* jQuery object, the caller's string otherwise.
initSortableHandleSelector(option) ==
    IF option.kind = "undefined" THEN [kind |-> "string", selector |-> ".sortableHandle"]
    ELSE [kind |-> "string", selector |-> option.selector]

\* defaultSortableOptions (lines 616-634) for the handle selector; a callback
\* is named by the event it triggers.
defaultSortableOptions(handle) ==
    [delay |-> "500", scrollSpeed |-> "40", handle |-> handle, helper |-> "clone",
     axis |-> "y", opacity |-> "0.9", cursor |-> "move", start |-> "sortableStart",
     stop |-> "sortableStop", update |-> "sortableUpdate"]

\* $.extend(target, object): every property of object is copied onto target.
extend(target, object) ==
    [name \in DOMAIN target \cup DOMAIN object |->
        IF name \in DOMAIN object THEN object[name] ELSE target[name]]

\* delete object[name]
delete(object, name) == [n \in DOMAIN object \ {name} |-> object[n]]

\* Variant of mergeSortableOptions: the caller's handle is not deleted.
mergeKeepingHandle(handle, callerOptions) ==
    extend(defaultSortableOptions(handle), callerOptions)

\* The options _initSortable passes to the sortable (lines 635-641).
mergeSortableOptions(handle, callerOptions) ==
    extend(defaultSortableOptions(handle), delete(callerOptions, "handle"))

\* The widget after _initSortable for a caller who leaves
\* sortableHandleSelector undefined.
SortableCreated ==
    /\ sortableHandleSelector = [kind |-> "string", selector |-> ".sortableHandle"]
    /\ sortable = [created |-> TRUE,
                   options |-> mergeSortableOptions(".sortableHandle", sortableOptions)]

\* _initSortable (lines 612-646), called once when the widget is created.
initSortable ==
    /\ ~sortable.created
    /\ sortableHandleSelector' = initSortableHandleSelector(sortableHandleSelector)
    /\ sortableOptions' = delete(sortableOptions, "handle")
    /\ sortable' = [created |-> TRUE,
                    options |-> mergeSortableOptions(
                                    sortableHandleSelector'.selector, sortableOptions)]
    /\ UNCHANGED <<filesContainer, deletedFilesContainer, hiddenFileInput,
                   hiddenDeletedInput, buttonBar, fired, cssTransition,
                   enableSortable, listener, inputDataFunction, reclicked>>
    /\ UNCHANGED modalVars

-----------------------------------------------------------------------------
\* Hidden Field Synchronizer

\* A function supplied by the caller as options.filesDataToInputDataFunction:
\* it maps the text it is given to another text.
CallerFunction(input_data) == [input_data EXCEPT !.text = "f(" \o @ \o ")"]

\* options.filesDataToInputDataFunction after _initFilesDataToInputDataFunction:
\* the caller's function, or the identity when the option is undefined.
filesDataToInputDataFunction(input_data) ==
    IF inputDataFunction = "undefined" THEN input_data ELSE CallerFunction(input_data)

\* Variant of fillIn: the JSON text is written for an empty set too.
fillInAlwaysJSON(s, input, files) ==
    IF s.error THEN s
    ELSE LET input_data == JSONstringify(files)
             s1 == [s EXCEPT ![input].val = filesDataToInputDataFunction(input_data)]
         IN IF s1[input].initializing
            THEN [s1 EXCEPT ![input].initializing = FALSE]
            ELSE Trigger(s1, "inputChanged", {}, 0, input)

\* Variant of fillIn: the class "initializing" is never removed.
fillInKeepMark(s, input, files) ==
    IF s.error THEN s
    ELSE LET input_data == IF Len(files) # 0 THEN JSONstringify(files) ELSE EmptyString
             s1 == [s EXCEPT ![input].val = filesDataToInputDataFunction(input_data)]
         IN IF s1[input].initializing
            THEN s1
            ELSE Trigger(s1, "inputChanged", {}, 0, input)

fillIn(s, input, files) ==
    IF s.error THEN s
    ELSE LET input_data == IF Len(files) # 0 THEN JSONstringify(files) ELSE EmptyString
             s1 == [s EXCEPT ![input].val = filesDataToInputDataFunction(input_data)]
         IN IF s1[input].initializing
            THEN [s1 EXCEPT ![input].initializing = FALSE]
            ELSE Trigger(s1, "inputChanged", {}, 0, input)

\* Variant of KeptItem: every child of the files container is serialised.
KeptItemAnyChild(it) == ~it.processing

\* filesContainer.children('.template-download').not('.processing')
KeptItem(it) == it.cls = "download" /\ ~it.processing

RECURSIVE KeptData(_)
\* .find('.preview').each(... files_data.push($(this).dataCollection()))
KeptData(items) ==
    IF items = <<>> THEN <<>>
    ELSE (IF KeptItem(Head(items)) /\ Head(items).rec # 0
          THEN <<Head(items).rec>> ELSE <<>>)
         \o KeptData(Tail(items))

RECURSIVE DeletedData(_)
\* deletedFilesContainer.children('.template-deleted').not('.processing')
\*     .find('.preview').each(...): no code marks a deleted template processing
DeletedData(items) ==
    IF items = <<>> THEN <<>>
    ELSE <<Head(items).rec>> \o DeletedData(Tail(items))

fillInHiddenInputs(s) ==
    IF s.error THEN s
    ELSE LET files_data == KeptData(s.files)
             s1 == fillIn(s, "kept", files_data)
             deleted_data == DeletedData(s1.deleted)
         IN fillIn(s1, "del", deleted_data)

-----------------------------------------------------------------------------
\* Button bar and drag handles

\* Variant of toggleFileuploadSortableHandle: the handles are shown as soon as
\* the files container holds one item.
toggleHandleFromOneItem(s) ==
    IF s.error \/ ~enableSortable THEN s
    ELSE LET hide == ~(Len(s.files) > 0)
         IN [s EXCEPT !.files = [i \in 1..Len(s.files) |->
                                    [s.files[i] EXCEPT !.handleHidden = hide]]]

toggleFileuploadSortableHandle(s) ==
    IF s.error \/ ~enableSortable THEN s
    ELSE LET hide == ~(Len(s.files) > 1)
         IN [s EXCEPT !.files = [i \in 1..Len(s.files) |->
                                    [s.files[i] EXCEPT !.handleHidden = hide]]]

\* Variant of toggleFileuploadButtonBarButtonDisplay: start and cancel are
\* hidden but stay enabled.
toggleButtonDisplayOnly(s) ==
    IF s.error THEN s
    ELSE LET bool == Cardinality({i \in 1..Len(s.files) : s.files[i].cls = "upload"}) = 0
         IN [s EXCEPT !.bar.startCancelDisplayNone = bool]

toggleFileuploadButtonBarButtonDisplay(s) ==
    IF s.error THEN s
    ELSE LET bool == Cardinality({i \in 1..Len(s.files) : s.files[i].cls = "upload"}) = 0
         IN [s EXCEPT !.bar.startCancelDisplayNone = bool,
                      !.bar.startCancelDisabled = bool]

getNumberOfUploadedFiles(s) ==
    Cardinality({i \in 1..Len(s.files) : KeptItem(s.files[i])})

toggleFileuploadButtonBarDelete(s) ==
    IF s.error THEN s
    ELSE [s EXCEPT !.bar.deleteDisplayNone = (getNumberOfUploadedFiles(s) = 0)]

\* that.toggleFileuploadSortableHandle()._toggleFileuploadButtonBarButtonDisplay()
\*     ._toggleFileuploadButtonBarDelete():
\* with enableSortable false the first call returns undefined and the chained
\* call throws a TypeError, which ends the task's current callback.
ToggleChain(s) ==
    IF s.error THEN s
    ELSE IF ~enableSortable THEN [toggleFileuploadSortableHandle(s) EXCEPT !.error = TRUE]
    ELSE toggleFileuploadButtonBarDelete(
             toggleFileuploadButtonBarButtonDisplay(
                 toggleFileuploadSortableHandle(s)))

-----------------------------------------------------------------------------
\* Lifecycle handlers (options.*)

\* Variant of completed: the hidden inputs are written before post_completed
\* is triggered.
completedWritesFirst(s, prev, rec, by) ==
    LET s0 == Trigger(s, "completed", prev, rec, by)
    IN IF s0.error \/ "completed" \in prev THEN s0
       ELSE Trigger(fillInHiddenInputs(ToggleChain(s0)),
                    "post_completed", prev, rec, "completed")

completed(s, prev, rec, by) ==
    LET s0 == Trigger(s, "completed", prev, rec, by)
    IN IF s0.error \/ "completed" \in prev THEN s0
       ELSE fillInHiddenInputs(
                Trigger(ToggleChain(s0), "post_completed", prev, rec, "completed"))

failed(s, prev, rec) ==
    LET s0 == Trigger(s, "failed", prev, rec, "fail")
    IN IF s0.error \/ "failed" \in prev THEN s0
       ELSE ToggleChain(s0)

\* The callback of a template's transition started by the base done handler:
\* completed, then finished.
DoneTransitionEnd(s, prev, rec, by) ==
    Trigger(completed(s, prev, rec, by), "finished", prev, rec, by)

\* blueimp done handler without data.context (options.done): the download
\* template of the files is appended to the files container and its
\* transition started.
doneAppend(s, prev, rec, by) ==
    LET s0 == Trigger(s, "done", prev, rec, by)
    IN IF s0.error \/ "done" \in prev THEN s0
       ELSE LET tag == by \o "-done"
                s1 == [s0 EXCEPT !.files = Append(@, Item("download", rec,
                                                IF cssTransition THEN tag ELSE ""))]
            IN IF cssTransition THEN s1 ELSE DoneTransitionEnd(s1, prev, rec, tag)

\* The callback of the deleted template's transition (destroyed, lines 135-141).
DestroyedTransitionEnd(s, prev, rec) ==
    Trigger(
        Trigger(completed(s, prev, rec, "destroyed"),
                "finished", prev, rec, "destroyed"),
        "post-destroy", prev, rec, "destroyed")

\* Variant of destroyed: completed, finished and post-destroy are fired by the
\* handler itself, without waiting for the transition of the deleted template.
destroyedNoWait(s, prev, rec) ==
    LET s0 == Trigger(s, "destroyed", prev, rec, "destroy")
    IN IF s0.error \/ "destroyed" \in prev THEN s0
       ELSE LET s1 == [s0 EXCEPT !.deleted = Append(@, DeletedItem(rec, <<>>))]
            IN ToggleChain(DestroyedTransitionEnd(s1, prev, rec))

destroyed(s, prev, rec) ==
    LET s0 == Trigger(s, "destroyed", prev, rec, "destroy")
    IN IF s0.error \/ "destroyed" \in prev THEN s0
       ELSE LET s1 == [s0 EXCEPT !.deleted =
                          Append(@, DeletedItem(rec,
                              IF cssTransition THEN <<"destroyed">> ELSE <<>>))]
                s2 == IF cssTransition THEN s1
                      ELSE DestroyedTransitionEnd(s1, prev, rec)
            IN ToggleChain(s2)

\* The callback of removeNode's transition (undelete, lines 160-167): the node
\* is removed (j = 0: it is already gone) and done is triggered with its record.
UndeleteTransitionEnd(s, prev, j, rec) ==
    IF s.error THEN s
    ELSE LET s1 == IF j = 0 THEN s ELSE [s EXCEPT !.deleted = RemoveAt(@, j)]
         IN doneAppend(s1, prev, rec, "undelete")

undelete(s, prev, j) ==
    LET rec == s.deleted[j].rec
        s0 == Trigger(s, "undelete", prev, rec, "click")
    IN IF s0.error \/ "undelete" \in prev THEN s0
       ELSE LET s1 == IF cssTransition
                      THEN [s0 EXCEPT !.deleted[j].cbs = Append(@, "undelete"),
                                      !.reclicked = IF UndeleteCbs(s0.deleted[j]) > 0
                                                    THEN @ \cup {rec} ELSE @]
                      ELSE UndeleteTransitionEnd(s0, prev, j, rec)
            IN Trigger(
                   Trigger(completed(s1, prev, rec, "undelete"),
                           "finished", prev, rec, "undelete"),
                   "post-destroy", prev, rec, "undelete")

sortableUpdate(s, prev, rec) ==
    LET s0 == Trigger(s, "sortableUpdate", prev, rec, "sortable")
    IN Trigger(completed(s0, prev, rec, "sortableUpdate"),
               "finished", prev, rec, "sortableUpdate")

\* $(data.context).replaceAll(data.replaceChild): the node new takes the place
\* of the node old and old is removed; nothing moves when old is not in the
\* document (old is then beyond the last index).
replace(s, prev, new, old) ==
    LET s0 == Trigger(s, "replace", prev, s.files[new].rec, "added")
    IN IF s0.error \/ "replace" \in prev THEN s0
       ELSE LET moved == IF old \in 1..Len(s0.files)
                         THEN [s0 EXCEPT !.files =
                                  RemoveAt([@ EXCEPT ![old] = s0.files[new]], new)]
                         ELSE s0
            IN Trigger(moved, "replaced", prev, s.files[new].rec, "replace")

\* new: the index of data.context; old: 0 when data.replaceChild is not set,
\* else the index of the node it names, an index beyond the last when that
\* node is no longer in the files container.
added(s, prev, new, old) ==
    LET rec == s.files[new].rec
        s0 == Trigger(s, "added", prev, rec, "add")
    IN IF s0.error \/ "added" \in prev THEN s0
       ELSE LET s1 == Trigger(s0, "before_submit", prev, rec, "added")
                s2 == IF old # 0 THEN replace(s1, prev, new, old) ELSE s1
                cleared == old # 0 /\ "replace" \notin prev /\ ~s2.error
                pos == IF cleared /\ old \in 1..Len(s1.files) THEN old ELSE new
                s3 == IF s2.error THEN s2
                      ELSE [s2 EXCEPT !.files[pos].replaceChild =
                                          IF cleared THEN 0 ELSE @,
                                      !.files[pos].btnDisabled = FALSE]
            IN toggleFileuploadButtonBarButtonDisplay(
                   toggleFileuploadSortableHandle(s3))

-----------------------------------------------------------------------------
\* Tasks of the page: each action is one event dispatch, from the base
\* widget's handler to the end of everything the handlers of this file call.

CommitWidget(s) ==
    /\ filesContainer' = s.files
    /\ deletedFilesContainer' = s.deleted
    /\ hiddenFileInput' = s.kept
    /\ hiddenDeletedInput' = s.del
    /\ buttonBar' = s.bar
    /\ fired' = s.fired
    /\ reclicked' = s.reclicked
    /\ UNCHANGED <<cssTransition, enableSortable, sortableOptions,
                   sortableHandleSelector, sortable, listener, inputDataFunction>>

\* A task of the upload list: the edit modal is not involved.
Commit(s) == CommitWidget(s) /\ UNCHANGED modalVars

\* blueimp add handler: the upload template is rendered and appended, the file
\* is processed (validated); added is triggered when processing succeeds.
Add(ok) ==
    /\ Population(State) < MaxItems
    /\ LET rec == FreshRec(State)
           s1 == [State EXCEPT !.files = Append(@, Item("upload", rec, "")),
                               !.reclicked = @ \ {rec}]
       IN Commit(IF ok THEN added(s1, listener, Len(s1.files), 0) ELSE s1)

\* blueimp done handler with data.context (an upload succeeded): the download
\* template replaces the upload template and its transition is started.
UploadDone(i) ==
    /\ i \in 1..Len(filesContainer)
    /\ filesContainer[i].cls = "upload"
    /\ ~filesContainer[i].processing
    /\ LET rec == filesContainer[i].rec
           s0 == Trigger(State, "done", listener, rec, "upload")
           s1 == [s0 EXCEPT !.files[i] = Item("download", rec,
                                              IF cssTransition THEN "upload-done" ELSE "")]
       IN Commit(IF "done" \in listener THEN s0
                 ELSE IF cssTransition THEN s1
                 ELSE DoneTransitionEnd(s1, listener, rec, "upload-done"))

\* blueimp fail handler with data.context: an aborted (cancelled) upload or
\* error row is removed, a failed upload is replaced by the download template
\* carrying the error; then failed and finished are triggered.
UploadFail(i, abort) ==
    /\ i \in 1..Len(filesContainer)
    /\ ~filesContainer[i].processing
    /\ \/ filesContainer[i].cls = "upload"
       \/ abort /\ filesContainer[i].rec = 0
    /\ LET rec == filesContainer[i].rec
           s1 == IF abort THEN [State EXCEPT !.files = RemoveAt(@, i)]
                 ELSE [State EXCEPT !.files[i] = Item("download", 0, "")]
       IN Commit(Trigger(failed(s1, listener, rec), "finished", listener, rec, "fail"))

\* blueimp destroy handler, removeNode callback: the node is removed from the
\* files container and destroyed is triggered with it as data.context.
Destroy(i) ==
    /\ i \in 1..Len(filesContainer)
    /\ filesContainer[i].cls = "download"
    /\ filesContainer[i].rec # 0
    /\ LET rec == filesContainer[i].rec
           s1 == [State EXCEPT !.files = RemoveAt(@, i)]
       IN Commit(destroyed(s1, listener, rec))

\* destroyed is triggered with data that carries no context (the base destroy
\* method called without a context, or a caller's own trigger):
\* getFilesDataFromDataContext returns [] and files is [[]], for which the
\* deleted template renders one item without a file record (record 0).
DestroyedNoContext ==
    /\ Population(State) < MaxItems
    /\ Commit(destroyed(State, listener, 0))

\* _undeleteHandler: a click on .undelete of the deleted item j.
undeleteHandler(j) ==
    /\ j \in 1..Len(deletedFilesContainer)
    /\ UndeleteCbs(deletedFilesContainer[j]) > 0 => Population(State) < MaxItems
    /\ Commit(undelete(State, listener, j))

\* transitionend on a download template of the files container.
TransitionEndFile(i) ==
    /\ i \in 1..Len(filesContainer)
    /\ filesContainer[i].fading # ""
    /\ Commit(DoneTransitionEnd([State EXCEPT !.files[i].fading = ""],
                                listener, filesContainer[i].rec,
                                filesContainer[i].fading))

RECURSIVE RunCallbacks(_, _, _, _, _)
\* The handlers bound to the node's transitionend, in registration order; j is
\* the node's index in the deleted container, 0 once it has been removed.
RunCallbacks(s, cbs, j, rec, prev) ==
    IF cbs = <<>> THEN s
    ELSE IF Head(cbs) = "destroyed"
    THEN RunCallbacks(DestroyedTransitionEnd(s, prev, rec), Tail(cbs), j, rec, prev)
    ELSE RunCallbacks(UndeleteTransitionEnd(s, prev, j, rec), Tail(cbs), 0, rec, prev)

\* transitionend on a deleted template.
TransitionEndDeleted(j) ==
    /\ j \in 1..Len(deletedFilesContainer)
    /\ deletedFilesContainer[j].cbs # <<>>
    /\ Commit(RunCallbacks([State EXCEPT !.deleted[j].cbs = <<>>],
                           deletedFilesContainer[j].cbs, j,
                           deletedFilesContainer[j].rec, listener))

\* jQuery UI sortable: the item i is dropped at position j, then the sortable
\* fires its update ("sortupdate") and calls its update option: the widget's
\* own (which triggers sortableUpdate) unless the caller's sortableOptions
\* replaced it ($.extend(defaultSortableOptions, sortableOptions)).
SortableDrop(i, j) ==
    /\ i \in 1..Len(filesContainer)
    /\ j \in 1..Len(filesContainer)
    /\ i # j
    /\ ~filesContainer[i].handleHidden
    /\ LET it == filesContainer[i]
           s1 == Trigger([State EXCEPT !.files = InsertAt(RemoveAt(@, i), j, it)],
                         "sortupdate", {}, it.rec, "sortable")
       IN Commit(IF sortable.options.update # "sortableUpdate" THEN s1
                 ELSE sortableUpdate(s1, listener, it.rec))

-----------------------------------------------------------------------------
\* Edit modal and cropper (download mode: the edit button of an uploaded item)

\* $image.cropper("getData", "true"): the rotation in quarter turns and the
\* crop box (0: the whole canvas, as autoCropArea: 1 sets it; 1: a box the
\* user has drawn).
StartData == [rotate |-> 0, box |-> 0, scaleX |-> 1, scaleY |-> 1]

\* options.cropperButtonSelector.prop("disabled", b): every .btn of the
\* button div, the rotate group, the status group and the others (the scale
\* buttons).
cropperButtonSelector(buttons, b) ==
    [buttons EXCEPT !.rotate = b, !.status = b, !.scale = b]

\* No cropper on the image (before the first session, after destroy).
NoCropper == [exists |-> FALSE, ready |-> FALSE, disabled |-> FALSE, data |-> StartData]

\* The records the page knows: those of its items, of the pending requests,
\* of the edit session and of the texts of the hidden inputs.
KnownRecs(s) ==
    UsedRecs(s) \cup {ajax[k].rec : k \in 1..Len(ajax)} \cup {editImg.submitData}
    \cup Range(s.kept.val.files) \cup Range(s.del.val.files)

\* A record for response.file: the server stores the cropped image as a new
\* file, one the page does not know yet.
ServerRec(s) ==
    CHOOSE r \in 1..(MaxItems + 2 * MaxSessions + 2) :
        /\ r \notin KnownRecs(s)
        /\ \A q \in 1..(r - 1) : q \in KnownRecs(s)

\* The download template that carries the record rec, 0 when it is detached.
Attached(s, rec) ==
    IF \E i \in 1..Len(s.files) : s.files[i].rec = rec /\ s.files[i].cls = "download"
    THEN CHOOSE i \in 1..Len(s.files) : s.files[i].rec = rec /\ s.files[i].cls = "download"
    ELSE 0

\* options.done.call($fileupload, $.Event('done'), {result, context}) (lines
\* 356-361): the blueimp done handler with data.context. The download template
\* of the returned file replaces the context node and its transition is
\* started; a detached context is replaced nowhere and its transitions resolve
\* at once. The event is not triggered, so no listener can prevent it.
doneReplace(s, rec, new) ==
    LET s0 == Trigger(s, "done", {}, new, "ajax")
        i == Attached(s0, rec)
    IN IF i = 0 THEN DoneTransitionEnd(s0, listener, new, "crop-done")
       ELSE LET s1 == [s0 EXCEPT !.files[i] =
                          Item("download", new, IF cssTransition THEN "crop-done" ELSE "")]
            IN IF cssTransition THEN s1
               ELSE DoneTransitionEnd(s1, listener, new, "crop-done")

\* _editHandler for a download template or for an upload template whose data
\* names the original file, then $editModal.modal('show', ...) with the two
\* show.bs.modal handlers. The closures $editImg.submitData (download) and
\* $editImg.processCroppedCanvas (upload) capture the clicked item.
editHandler(i) ==
    /\ editModal.state = "hidden"
    /\ session < MaxSessions
    /\ i \in 1..Len(filesContainer)
    /\ \/ filesContainer[i].cls = "download" /\ filesContainer[i].rec # 0
       \/ /\ filesContainer[i].cls = "upload"
          /\ ~filesContainer[i].btnDisabled
          /\ filesContainer[i].data = "original"
    /\ editImg' = IF filesContainer[i].cls = "download"
                  THEN [editImg EXCEPT !.src = filesContainer[i].rec,
                                       !.submitData = filesContainer[i].rec]
                  ELSE [editImg EXCEPT !.src = filesContainer[i].rec,
                                       !.processCroppedCanvas = filesContainer[i].rec]
    /\ closure' = [closure EXCEPT !.editType = filesContainer[i].cls]
    /\ editModal' = [editModal EXCEPT !.state = "showing"]
    /\ session' = session + 1
    /\ CommitWidget(Trigger(State, "modalshowevent", {}, filesContainer[i].rec, "show"))
    /\ UNCHANGED <<blobs, cropperButtons, messageBox, ajax, timers, lastHide>>

\* Variant of editHandlerNoData: the upload data is not looked at and the
\* modal is opened for the item.
editHandlerIgnoringData(i) ==
    /\ editModal.state = "hidden"
    /\ session < MaxSessions
    /\ i \in 1..Len(filesContainer)
    /\ filesContainer[i].cls = "upload"
    /\ ~filesContainer[i].btnDisabled
    /\ filesContainer[i].data # "original"
    /\ editImg' = [editImg EXCEPT !.src = filesContainer[i].rec,
                                  !.processCroppedCanvas = filesContainer[i].rec]
    /\ closure' = [closure EXCEPT !.editType = "upload"]
    /\ editModal' = [editModal EXCEPT !.state = "showing"]
    /\ session' = session + 1
    /\ CommitWidget(Trigger(State, "modalshowevent", {}, filesContainer[i].rec, "show"))
    /\ UNCHANGED <<blobs, cropperButtons, messageBox, ajax, timers, lastHide>>

\* _editHandler for an upload template, the two early returns (lines 302-317):
\* without upload data the clicked button is disabled (line 305); with upload
\* data whose originalFiles hold no file of the item's name nothing is done.
editHandlerNoData(i) ==
    /\ editModal.state = "hidden"
    /\ i \in 1..Len(filesContainer)
    /\ filesContainer[i].cls = "upload"
    /\ ~filesContainer[i].btnDisabled
    /\ filesContainer[i].data # "original"
    /\ CommitWidget(IF filesContainer[i].data = "absent"
                    THEN [State EXCEPT !.files[i].btnDisabled = TRUE]
                    ELSE State)
    /\ UNCHANGED modalVars

\* shown.bs.modal (lines 472-499).
ModalShown ==
    /\ editModal.state = "showing"
    /\ editModal' = [editModal EXCEPT !.state = "shown", !.dataNew = "true"]
    /\ editImg' = [editImg EXCEPT !.cropper = [NoCropper EXCEPT !.exists = TRUE]]
    /\ CommitWidget(Trigger(State, "modalshownevent", {}, editImg.src, "shown"))
    /\ UNCHANGED <<blobs, closure, cropperButtons, messageBox, ajax, timers,
                   session, lastHide>>

\* The cropper's ready callback (lines 484-487).
CropperReady ==
    /\ editImg.cropper.exists
    /\ ~editImg.cropper.ready
    /\ editImg' = [editImg EXCEPT !.cropper.ready = TRUE]
    /\ closure' = [closure EXCEPT !.croppStartingData = editImg.cropper.data]
    /\ cropperButtons' = [cropperButtons EXCEPT !.rotate = FALSE]
    /\ CommitWidget(State)
    /\ UNCHANGED <<blobs, editModal, messageBox, ajax, timers, session, lastHide>>

\* A crop gesture of the user that ends on the crop box b: the cropper's
\* cropstart and cropend callbacks (lines 488-499).
CropGesture(b) ==
    /\ editModal.state = "shown"
    /\ editImg.cropper.exists /\ editImg.cropper.ready /\ ~editImg.cropper.disabled
    /\ LET currentData == [editImg.cropper.data EXCEPT !.box = b]
           cropNotChanged == closure.croppStartingData = currentData
       IN /\ editImg' = [editImg EXCEPT !.cropper.data = currentData]
          /\ cropperButtons' = [cropperButtons EXCEPT !.status = cropNotChanged]
          /\ CommitWidget(
                 Trigger(Trigger(State, "modalinprogessstatus", {}, 1, "cropstart"),
                         "modalinprogessstatus", {},
                         IF cropNotChanged THEN 0 ELSE 1, "cropend"))
    /\ UNCHANGED <<blobs, editModal, closure, messageBox, ajax, timers, session, lastHide>>

\* The end of the click handler of the buttons (lines 573-577).
AfterMethod(s, buttons, currentData) ==
    IF closure.croppStartingData = currentData
    THEN <<Trigger(s, "modalinprogessstatus", {}, 0, "click"),
           [buttons EXCEPT !.status = TRUE]>>
    ELSE <<s, buttons>>

\* A click on a rotate button (data-method "rotate", q quarter turns to the
\* right, modulo the four of a full turn): lines
\* 518-527, 541, 566-570 and $editImg.rotateCanvas (lines 375-399).
ClickRotate(q) ==
    /\ editModal.state = "shown"
    /\ ~cropperButtons.rotate
    /\ LET usable == editImg.cropper.exists /\ editImg.cropper.ready
                     /\ ~editImg.cropper.disabled
           currentData == IF usable
                          THEN [editImg.cropper.data EXCEPT
                                   !.rotate = (@ + q) % 4, !.box = 0]
                          ELSE editImg.cropper.data
           s0 == Trigger(State, "modalinprogessstatus", {}, 1, "click")
           end == AfterMethod(s0, cropperButtonSelector(cropperButtons, FALSE),
                              currentData)
       IN /\ editImg' = [editImg EXCEPT !.cropper.data = currentData]
          /\ cropperButtons' = end[2]
          /\ CommitWidget(end[1])
    /\ UNCHANGED <<blobs, editModal, closure, messageBox, ajax, timers, session, lastHide>>

\* A click on a scale button (data-method "scaleX" or "scaleY"): lines 538-549
\* and 573-577. The cropper sets the scale factor of the axis to the button's
\* data-option, then the handler negates the button's data-option.
ClickScale(axis) ==
    /\ editModal.state = "shown"
    /\ ~cropperButtons.scale
    /\ LET usable == editImg.cropper.exists /\ editImg.cropper.ready
                     /\ ~editImg.cropper.disabled
           currentData == IF usable
                          THEN [editImg.cropper.data EXCEPT
                                   ![axis] = cropperButtons.option[axis]]
                          ELSE editImg.cropper.data
           s0 == Trigger(State, "modalinprogessstatus", {}, 1, "click")
           end == AfterMethod(s0, [cropperButtons EXCEPT
                                      !.option[axis] = 0 - cropperButtons.option[axis]],
                              currentData)
       IN /\ editImg' = [editImg EXCEPT !.cropper.data = currentData]
          /\ cropperButtons' = end[2]
          /\ CommitWidget(end[1])
    /\ UNCHANGED <<blobs, editModal, closure, messageBox, ajax, timers, session, lastHide>>

\* A click on the reset button (data-method "reset"): lines 541-552.
ClickReset ==
    /\ editModal.state = "shown"
    /\ ~cropperButtons.status
    /\ LET usable == editImg.cropper.exists /\ editImg.cropper.ready
                     /\ ~editImg.cropper.disabled
           currentData == IF usable THEN StartData ELSE editImg.cropper.data
           s0 == Trigger(State, "modalinprogessstatus", {}, 1, "click")
           end == AfterMethod(s0, [cropperButtons EXCEPT !.status = TRUE], currentData)
       IN /\ editImg' = [editImg EXCEPT !.cropper.data = currentData]
          /\ cropperButtons' = end[2]
          /\ CommitWidget(end[1])
    /\ UNCHANGED <<blobs, editModal, closure, messageBox, ajax, timers, session, lastHide>>

\* A click on the commit button (data-method "commit") in download mode: lines
\* 528-536, 553-557 and $editImg.submitData (lines 341-372) up to $.ajax.
ClickCommit ==
    /\ editModal.state = "shown"
    /\ ~cropperButtons.status
    /\ closure.editType = "download"
    /\ editImg.cropper.exists /\ editImg.cropper.ready
    /\ editImg.submitData # 0
    /\ LET s0 == Trigger(State, "modalinprogessstatus", {}, 1, "click")
           end == AfterMethod(s0, cropperButtonSelector(cropperButtons, TRUE),
                              editImg.cropper.data)
       IN /\ cropperButtons' = end[2]
          /\ CommitWidget(end[1])
    /\ editImg' = [editImg EXCEPT !.cropper.disabled = TRUE]
    /\ ajax' = Append(ajax, [session |-> session, rec |-> editImg.submitData])
    /\ UNCHANGED <<blobs, editModal, closure, messageBox, timers, session, lastHide>>

\* The template-upload node that carries the record rec, 0 when it is no
\* longer in the files container.
UploadNode(s, rec) ==
    IF \E i \in 1..Len(s.files) : s.files[i].rec = rec /\ s.files[i].cls = "upload"
    THEN CHOOSE i \in 1..Len(s.files) : s.files[i].rec = rec /\ s.files[i].cls = "upload"
    ELSE 0

\* $editImg.processCroppedCanvas (lines 320-335), its effect on the item: the
\* item's buttons are disabled and the item is marked processing.
processCroppedCanvas(s, rec) ==
    LET i == UploadNode(s, rec)
    IN IF i = 0 THEN s
       ELSE [s EXCEPT !.files[i].btnDisabled = TRUE, !.files[i].processing = TRUE]

\* A click on the commit button (data-method "commit") in upload mode: lines
\* 528-536, 558-562 and $editImg.processCroppedCanvas (lines 320-335) up to
\* the call of toBlob.
ClickCommitUpload ==
    /\ editModal.state = "shown"
    /\ ~cropperButtons.status
    /\ closure.editType = "upload"
    /\ editImg.cropper.exists /\ editImg.cropper.ready
    /\ editImg.processCroppedCanvas # 0
    /\ LET s0 == Trigger(State, "modalinprogessstatus", {}, 1, "click")
           s1 == Trigger(s0, "modalhideevent", {}, editImg.src, "commit")
           s2 == processCroppedCanvas(s1, editImg.processCroppedCanvas)
           end == AfterMethod(s2, cropperButtonSelector(cropperButtons, TRUE),
                              editImg.cropper.data)
       IN /\ cropperButtons' = end[2]
          /\ CommitWidget(end[1])
    /\ editModal' = [editModal EXCEPT !.state = "hiding"]
    /\ lastHide' = [by |-> "commit", of |-> 0, at |-> session]
    /\ blobs' = Append(blobs, [rec |-> editImg.processCroppedCanvas])
    /\ UNCHANGED <<editImg, closure, messageBox, ajax, timers, session>>

\* A record for the row of a re-submitted blob: one that no item, no closure
\* and no pending callback names.
BlobRec(s) ==
    LET known == KnownRecs(s) \cup {blobs[k].rec : k \in 1..Len(blobs)}
                 \cup {editImg.processCroppedCanvas, editImg.src}
    IN CHOOSE r \in 1..(MaxCropItems + 2 * MaxSessions + 2) :
           /\ r \notin known
           /\ \A q \in 1..(r - 1) : q \in known

\* The toBlob callback k (lines 328-334): $fileupload.fileupload('add', {files:
\* [blob], replaceChild: $(data.context)}). The blueimp add handler renders
\* and appends the upload template of the blob and processes (validates) the
\* file; added is triggered, with data.replaceChild, when processing succeeds.
ToBlobAdd(k, ok) ==
    /\ k \in 1..Len(blobs)
    /\ blobs' = RemoveAt(blobs, k)
    /\ LET old == UploadNode(State, blobs[k].rec)
           row == [Item("upload", BlobRec(State), "")
                      EXCEPT !.replaceChild = blobs[k].rec]
           s1 == [State EXCEPT !.files = Append(@, row)]
           s2 == IF ok
                 THEN added(s1, listener, Len(s1.files),
                            IF old = 0 THEN Len(s1.files) + 1 ELSE old)
                 ELSE s1
       IN CommitWidget(s2)
    /\ UNCHANGED <<editModal, editImg, closure, cropperButtons, messageBox, ajax,
                   timers, session, lastHide>>

\* The POST k succeeds: the done callback of submitData (lines 355-367).
AjaxDone(k) ==
    /\ k \in 1..Len(ajax)
    /\ ajax' = RemoveAt(ajax, k)
    /\ LET s0 == Trigger(State, "ajaxSuccess", {}, ajax[k].rec, "ajax")
       IN CommitWidget(doneReplace(s0, ajax[k].rec, ServerRec(s0)))
    /\ messageBox' = [cls |-> "alert-success", session |-> ajax[k].session]
    /\ editModal' = [editModal EXCEPT !.dataNew = "false"]
    /\ timers' = Append(timers, [session |-> ajax[k].session])
    /\ UNCHANGED <<blobs, editImg, closure, cropperButtons, session, lastHide>>

\* The POST k fails: the fail callback of submitData (lines 368-370). Without
\* a JSON body response.responseJSON is undefined and the callback throws
\* before it writes the message.
AjaxFail(k, json) ==
    /\ k \in 1..Len(ajax)
    /\ ajax' = RemoveAt(ajax, k)
    /\ CommitWidget([State EXCEPT !.fired =
           <<[ev |-> "ajaxError", prevented |-> FALSE, rec |-> ajax[k].rec,
              by |-> "ajax", json |-> json, session |-> ajax[k].session]>>])
    /\ messageBox' = IF json THEN [cls |-> "alert-danger", session |-> ajax[k].session]
                     ELSE messageBox
    /\ UNCHANGED <<blobs, editModal, editImg, closure, cropperButtons, timers,
                   session, lastHide>>

\* $editModal.modal('hide') with the hide.bs.modal handler: Bootstrap hides a
\* modal that is shown and ignores the call otherwise.
ModalHide(s, cause, of) ==
    IF editModal.state = "shown"
    THEN /\ editModal' = [editModal EXCEPT !.state = "hiding"]
         /\ lastHide' = [by |-> cause, of |-> of, at |-> session]
         /\ CommitWidget(Trigger(s, "modalhideevent", {}, editImg.src, cause))
    ELSE /\ UNCHANGED <<editModal, lastHide>>
         /\ CommitWidget(s)

\* The timeout k of a successful POST expires (lines 364-366).
TimerFire(k) ==
    /\ k \in 1..Len(timers)
    /\ timers' = RemoveAt(timers, k)
    /\ IF editModal.dataNew # "true"
       THEN ModalHide(State, "timer", timers[k].session)
       ELSE CommitWidget(State) /\ UNCHANGED <<editModal, lastHide>>
    /\ UNCHANGED <<blobs, editImg, closure, cropperButtons, messageBox, ajax, session>>

\* The user closes the modal (close button, backdrop click or Esc).
UserClose ==
    /\ editModal.state = "shown"
    /\ ModalHide(State, "user", 0)
    /\ UNCHANGED <<blobs, editImg, closure, cropperButtons, messageBox, ajax,
                   timers, session>>

\* hidden.bs.modal (lines 501-512). The attribute data-new is written, not the
\* value that .data("new") reads.
ModalHidden ==
    /\ editModal.state = "hiding"
    /\ editModal' = [editModal EXCEPT !.state = "hidden", !.attrNew = "false"]
    /\ editImg' = [editImg EXCEPT !.cropper = NoCropper]
    /\ cropperButtons' = cropperButtonSelector(cropperButtons, TRUE)
    /\ messageBox' = [cls |-> "", session |-> 0]
    /\ CommitWidget(
           Trigger(Trigger(State, "modalinprogessstatus", {}, 0, "hidden"),
                   "modalhiddenevent", {}, editImg.src, "hidden"))
    /\ UNCHANGED <<blobs, closure, ajax, timers, session, lastHide>>

\* The modal before the first session: hidden, no cropper, the crop buttons
\* disabled, the message box empty.
ModalInit ==
    /\ editModal = [state |-> "hidden", dataNew |-> "undefined", attrNew |-> "undefined"]
    /\ editImg = [src |-> 0, submitData |-> 0, processCroppedCanvas |-> 0,
                  cropper |-> NoCropper]
    /\ closure = [editType |-> "undefined", croppStartingData |-> StartData]
    /\ cropperButtons = [rotate |-> TRUE, status |-> TRUE, scale |-> TRUE,
                         option |-> [scaleX |-> -1, scaleY |-> -1]]
    /\ messageBox = [cls |-> "", session |-> 0]
    /\ ajax = <<>>
    /\ timers = <<>>
    /\ blobs = <<>>
    /\ session = 0
    /\ lastHide = [by |-> "none", of |-> 0, at |-> 0]

Init ==
    /\ filesContainer = <<>>
    /\ deletedFilesContainer = <<>>
    /\ hiddenFileInput \in {[val |-> EmptyString, initializing |-> b] : b \in BOOLEAN}
    /\ hiddenDeletedInput = [val |-> EmptyString,
                             initializing |-> hiddenFileInput.initializing]
    /\ buttonBar = [startCancelDisplayNone |-> FALSE, startCancelDisabled |-> FALSE,
                    deleteDisplayNone |-> FALSE]
    /\ fired = <<>>
    /\ cssTransition \in BOOLEAN
    /\ enableSortable = TRUE
    /\ sortableOptions \in {NoOptions, [update |-> "caller"]}
    /\ SortableCreated
    /\ listener \in PreventChoices
    /\ inputDataFunction = "undefined"
    /\ reclicked = {}
    /\ ModalInit

Next ==
    \/ \E ok \in BOOLEAN : Add(ok)
    \/ \E i \in 1..MaxItems : UploadDone(i)
    \/ \E i \in 1..MaxItems, abort \in BOOLEAN :
          UploadFail(i, abort)
    \/ \E i \in 1..MaxItems : Destroy(i)
    \/ \E j \in 1..MaxItems : undeleteHandler(j)
    \/ \E i \in 1..MaxItems : TransitionEndFile(i)
    \/ \E j \in 1..MaxItems : TransitionEndDeleted(j)
    \/ \E i \in 1..MaxItems, j \in 1..MaxItems :
          SortableDrop(i, j)

Spec == Init /\ [][Next]_vars

\* The upload list of a widget created with or without a caller-supplied
\* filesDataToInputDataFunction, on a page where each hidden input is or is
\* not rendered with the class "initializing"; no listener prevents anything.
InitInputs ==
    /\ filesContainer = <<>>
    /\ deletedFilesContainer = <<>>
    /\ hiddenFileInput \in {[val |-> EmptyString, initializing |-> b] : b \in BOOLEAN}
    /\ hiddenDeletedInput \in {[val |-> EmptyString, initializing |-> b] : b \in BOOLEAN}
    /\ buttonBar = [startCancelDisplayNone |-> FALSE, startCancelDisabled |-> FALSE,
                    deleteDisplayNone |-> FALSE]
    /\ fired = <<>>
    /\ cssTransition \in BOOLEAN
    /\ enableSortable = TRUE
    /\ sortableOptions = NoOptions
    /\ SortableCreated
    /\ listener = {}
    /\ inputDataFunction \in {"undefined", "caller"}
    /\ reclicked = {}
    /\ ModalInit

SpecInputs == InitInputs /\ [][Next]_vars

\* A page rendered with one uploaded file, whose edit button opens the modal.
InitModal ==
    /\ filesContainer = <<[Item("download", 1, "") EXCEPT !.handleHidden = TRUE]>>
    /\ deletedFilesContainer = <<>>
    /\ hiddenFileInput = [val |-> JSONstringify(<<1>>), initializing |-> FALSE]
    /\ hiddenDeletedInput = [val |-> EmptyString, initializing |-> FALSE]
    /\ buttonBar = [startCancelDisplayNone |-> TRUE, startCancelDisabled |-> TRUE,
                    deleteDisplayNone |-> FALSE]
    /\ fired = <<>>
    /\ cssTransition \in BOOLEAN
    /\ enableSortable = TRUE
    /\ sortableOptions = NoOptions
    /\ SortableCreated
    /\ listener = {}
    /\ inputDataFunction = "undefined"
    /\ reclicked = {}
    /\ ModalInit

NextModal ==
    \/ \E i \in 1..MaxItems : editHandler(i)
    \/ ModalShown
    \/ CropperReady
    \/ \E b \in 0..1 : CropGesture(b)
    \/ \E q \in {1, 3} : ClickRotate(q)
    \/ ClickReset
    \/ ClickCommit
    \/ \E k \in 1..MaxSessions : AjaxDone(k)
    \/ \E k \in 1..MaxSessions, json \in BOOLEAN : AjaxFail(k, json)
    \/ \E k \in 1..MaxSessions : TimerFire(k)
    \/ UserClose
    \/ ModalHidden
    \/ \E i \in 1..MaxItems : TransitionEndFile(i)

SpecModal == InitModal /\ [][NextModal]_vars

\* A page without CSS transitions on which two files have been added and wait
\* for their upload or are being uploaded; a page listener prevents nothing,
\* every replace or every added event.
InitCrop ==
    /\ filesContainer = <<Item("upload", 1, ""), Item("upload", 2, "")>>
    /\ deletedFilesContainer = <<>>
    /\ hiddenFileInput = [val |-> EmptyString, initializing |-> FALSE]
    /\ hiddenDeletedInput = [val |-> EmptyString, initializing |-> FALSE]
    /\ buttonBar = [startCancelDisplayNone |-> FALSE, startCancelDisabled |-> FALSE,
                    deleteDisplayNone |-> FALSE]
    /\ fired = <<>>
    /\ cssTransition = FALSE
    /\ enableSortable = TRUE
    /\ sortableOptions = NoOptions
    /\ SortableCreated
    /\ listener \in {{}, {"replace"}, {"added"}}
    /\ inputDataFunction = "undefined"
    /\ reclicked = {}
    /\ ModalInit

NextCrop ==
    \/ \E i \in 1..MaxCropItems : editHandler(i)
    \/ ModalShown
    \/ CropperReady
    \/ \E b \in 0..1 : CropGesture(b)
    \/ ClickCommitUpload
    \/ \E k \in 1..MaxSessions, ok \in BOOLEAN : ToBlobAdd(k, ok)
    \/ UserClose
    \/ ModalHidden
    \/ \E i \in 1..MaxCropItems : UploadDone(i)

SpecCrop == InitCrop /\ [][NextCrop]_vars

\* The upload list of a page on which destroyed is also triggered with data
\* that carries no context; a listener prevents nothing or every destroyed
\* event.
InitNoContext ==
    /\ filesContainer = <<>>
    /\ deletedFilesContainer = <<>>
    /\ hiddenFileInput = [val |-> EmptyString, initializing |-> FALSE]
    /\ hiddenDeletedInput = [val |-> EmptyString, initializing |-> FALSE]
    /\ buttonBar = [startCancelDisplayNone |-> FALSE, startCancelDisabled |-> FALSE,
                    deleteDisplayNone |-> FALSE]
    /\ fired = <<>>
    /\ cssTransition \in BOOLEAN
    /\ enableSortable = TRUE
    /\ sortableOptions = NoOptions
    /\ SortableCreated
    /\ listener \in {{}, {"destroyed"}}
    /\ inputDataFunction = "undefined"
    /\ reclicked = {}
    /\ ModalInit

NextNoContext ==
    \/ Next
    \/ DestroyedNoContext

SpecNoContext == InitNoContext /\ [][NextNoContext]_vars

\* The upload data an upload template of the page can carry.
UploadData == {"original", "unmatched", "absent"}

\* A page with two files waiting for upload whose templates carry upload data
\* with the original file, upload data without it, or no upload data.
InitEdit ==
    /\ filesContainer \in
          {<<[Item("upload", 1, "") EXCEPT !.data = d1],
             [Item("upload", 2, "") EXCEPT !.data = d2]>> :
              d1 \in UploadData, d2 \in UploadData}
    /\ deletedFilesContainer = <<>>
    /\ hiddenFileInput = [val |-> EmptyString, initializing |-> FALSE]
    /\ hiddenDeletedInput = [val |-> EmptyString, initializing |-> FALSE]
    /\ buttonBar = [startCancelDisplayNone |-> FALSE, startCancelDisabled |-> FALSE,
                    deleteDisplayNone |-> FALSE]
    /\ fired = <<>>
    /\ cssTransition = FALSE
    /\ enableSortable = TRUE
    /\ sortableOptions = NoOptions
    /\ SortableCreated
    /\ listener = {}
    /\ inputDataFunction = "undefined"
    /\ reclicked = {}
    /\ ModalInit

NextEdit ==
    \/ \E i \in 1..MaxItems : editHandlerNoData(i)
    \/ \E i \in 1..MaxItems : editHandler(i)
    \/ ModalShown
    \/ CropperReady
    \/ UserClose
    \/ ModalHidden
    \/ \E i \in 1..MaxItems : UploadDone(i)

SpecEdit == InitEdit /\ [][NextEdit]_vars

\* The upload list of a widget created with enableSortable: false (the
\* sortable is created all the same, line 659); no listener prevents anything.
InitNoSortable ==
    /\ filesContainer = <<>>
    /\ deletedFilesContainer = <<>>
    /\ hiddenFileInput \in {[val |-> EmptyString, initializing |-> b] : b \in BOOLEAN}
    /\ hiddenDeletedInput = [val |-> EmptyString,
                             initializing |-> hiddenFileInput.initializing]
    /\ buttonBar = [startCancelDisplayNone |-> FALSE, startCancelDisabled |-> FALSE,
                    deleteDisplayNone |-> FALSE]
    /\ fired = <<>>
    /\ cssTransition \in BOOLEAN
    /\ enableSortable = FALSE
    /\ sortableOptions = NoOptions
    /\ SortableCreated
    /\ listener = {}
    /\ inputDataFunction = "undefined"
    /\ reclicked = {}
    /\ ModalInit

SpecNoSortable == InitNoSortable /\ [][Next]_vars

\* The upload list of a widget created with the default options on a page
\* whose listener is bound to every event, prevents none and looks at the
\* page each time it is called.
InitObserved ==
    /\ filesContainer = <<>>
    /\ deletedFilesContainer = <<>>
    /\ hiddenFileInput \in {[val |-> EmptyString, initializing |-> b] : b \in BOOLEAN}
    /\ hiddenDeletedInput = [val |-> EmptyString,
                             initializing |-> hiddenFileInput.initializing]
    /\ buttonBar = [startCancelDisplayNone |-> FALSE, startCancelDisabled |-> FALSE,
                    deleteDisplayNone |-> FALSE]
    /\ fired = <<>>
    /\ cssTransition \in BOOLEAN
    /\ enableSortable = TRUE
    /\ sortableOptions = NoOptions
    /\ SortableCreated
    /\ listener = {"observer"}
    /\ inputDataFunction = "undefined"
    /\ reclicked = {}
    /\ ModalInit

SpecObserved == InitObserved /\ [][Next]_vars

\* The option names a caller puts into sortableOptions: four that the default
\* set has, handle among them, and one that it has not.
CallerNames == {"handle", "axis", "delay", "update", "revert"}

\* The widget before _initSortable, for every caller-supplied sortableOptions
\* over CallerNames and a sortableHandleSelector that is undefined, a string
\* or a jQuery object.
InitSortable ==
    /\ filesContainer = <<>>
    /\ deletedFilesContainer = <<>>
    /\ hiddenFileInput = [val |-> EmptyString, initializing |-> FALSE]
    /\ hiddenDeletedInput = [val |-> EmptyString, initializing |-> FALSE]
    /\ buttonBar = [startCancelDisplayNone |-> FALSE, startCancelDisabled |-> FALSE,
                    deleteDisplayNone |-> FALSE]
    /\ fired = <<>>
    /\ cssTransition = FALSE
    /\ enableSortable = TRUE
    /\ sortableOptions \in {[name \in names |-> "caller"] : names \in SUBSET CallerNames}
    /\ sortableHandleSelector \in
          {[kind |-> "undefined", selector |-> ""],
           [kind |-> "string", selector |-> ".caller-handle"],
           [kind |-> "jquery", selector |-> ".caller-jquery-handle"]}
    /\ sortable = [created |-> FALSE, options |-> NoOptions]
    /\ listener = {}
    /\ inputDataFunction = "undefined"
    /\ reclicked = {}
    /\ ModalInit

SpecSortable == InitSortable /\ [][initSortable]_vars

\* The cropper toolbar of the edit modal on a page with one uploaded file:
\* sessions, crop gestures and the toolbar commands rotate, reset, scaleX and
\* scaleY.
NextCropper ==
    \/ \E i \in 1..MaxItems : editHandler(i)
    \/ ModalShown
    \/ CropperReady
    \/ \E b \in 0..1 : CropGesture(b)
    \/ \E q \in {1, 3} : ClickRotate(q)
    \/ \E axis \in {"scaleX", "scaleY"} : ClickScale(axis)
    \/ ClickReset
    \/ UserClose
    \/ ModalHidden

SpecCropper == InitModal /\ [][NextCropper]_vars

\* The browser calls every pending toBlob callback: canvas.toBlob always
\* completes, whatever else happens on the page.
SpecCropLive ==
    SpecCrop /\ WF_vars(\E k \in 1..MaxSessions, ok \in BOOLEAN : ToBlobAdd(k, ok))

-----------------------------------------------------------------------------
\* Properties. They read the DOM directly, not through the handlers' helpers.

LifecycleEvents ==
    {"added", "replace", "failed", "completed", "destroyed", "undelete",
     "sortableUpdate"}

RECURSIVE DownloadRecords(_)
\* The data records of the non-processing template-download items, DOM order.
DownloadRecords(items) ==
    IF items = <<>> THEN <<>>
    ELSE (IF Head(items).cls = "download" /\ ~Head(items).processing
             /\ Head(items).rec # 0
          THEN <<Head(items).rec>> ELSE <<>>)
         \o DownloadRecords(Tail(items))

\* The data records of the template-deleted items, DOM order.
DeletedRecords == [j \in 1..Len(deletedFilesContainer) |-> deletedFilesContainer[j].rec]

\* The text the widget writes for a list of records.
TextOf(files) == IF files = <<>> THEN EmptyString ELSE JSONstringify(files)

\* The handler of the k-th event of the last task ran (was not prevented).
Ran(k, evs) == fired[k].ev \in evs /\ ~fired[k].prevented

\* Nothing changed the containers after the k-th event of the last task: within
\* a task only an undelete transition callback (remove, then done) does so
\* after an event has been handled.
Settled(k) == \A m \in (k + 1)..Len(fired) : fired[m].ev # "done"

\* C1 as stated: after the handling of any added, replace, failed, completed,
\* destroyed, undelete or sortableUpdate event both hidden inputs list the
\* records of the current DOM sets.
C1_InputsMatchAfterAnyEvent ==
    (listener = {} /\ \E k \in 1..Len(fired) : Ran(k, LifecycleEvents) /\ Settled(k))
    => /\ hiddenFileInput.val.files = DownloadRecords(filesContainer)
       /\ hiddenDeletedInput.val.files = DeletedRecords

\* C1 amended: after the handling of a completed event that was not prevented
\* (fired by the upload widget, or re-fired by destroyed after its transition,
\* by undelete or by sortableUpdate) the kept input holds exactly the text of
\* the records of the non-processing template-download items in DOM order and
\* the deleted input that of the template-deleted items.
C1_InputsMatchAfterCompleted ==
    (\E k \in 1..Len(fired) : Ran(k, {"completed"}) /\ Settled(k))
    => /\ hiddenFileInput.val = TextOf(DownloadRecords(filesContainer))
       /\ hiddenDeletedInput.val = TextOf(DeletedRecords)

C1_Witness ==
    /\ \E k \in 1..Len(fired) : Ran(k, {"completed"}) /\ Settled(k)
    /\ Len(hiddenFileInput.val.files) = 1
    /\ Len(hiddenDeletedInput.val.files) = 1

\* C2 as stated: once the deleted template's transition has completed and the
\* completed event re-fired by destroyed has been handled, the destroyed
\* item's record is in the deleted container and in the deleted input and is
\* absent from the kept input.
C2_DestroyedResolved ==
    \A k \in 1..Len(fired) :
        (Ran(k, {"completed"}) /\ fired[k].by = "destroyed" /\ Settled(k))
        => /\ fired[k].rec \in Range(DeletedRecords)
           /\ fired[k].rec \in Range(hiddenDeletedInput.val.files)
           /\ fired[k].rec \notin Range(hiddenFileInput.val.files)

\* C2 for the records that no repeated undelete click has restored twice.
DestroyedResolvedUnlessRepeated ==
    \A k \in 1..Len(fired) :
        (Ran(k, {"completed"}) /\ fired[k].by = "destroyed" /\ Settled(k))
        => /\ fired[k].rec \in Range(DeletedRecords)
           /\ fired[k].rec \in Range(hiddenDeletedInput.val.files)
           /\ fired[k].rec \notin reclicked
                 => fired[k].rec \notin Range(hiddenFileInput.val.files)

\* C3 as stated: delete followed by undelete is a round trip: once the
\* completed event of the done event that undelete fired has been handled, the
\* record is in the kept input exactly once and in neither the deleted
\* container nor the deleted input.
C3_UndeleteRoundTrip ==
    \A k \in 1..Len(fired) :
        (Ran(k, {"completed"}) /\ fired[k].by = "undelete-done" /\ Settled(k))
        => /\ Count(hiddenFileInput.val.files, fired[k].rec) = 1
           /\ fired[k].rec \notin Range(DeletedRecords)
           /\ fired[k].rec \notin Range(hiddenDeletedInput.val.files)

\* C3 for the records that no repeated undelete click has restored twice.
UndeleteRoundTripUnlessRepeated ==
    \A k \in 1..Len(fired) :
        (Ran(k, {"completed"}) /\ fired[k].by = "undelete-done" /\ Settled(k)
         /\ fired[k].rec \notin reclicked)
        => /\ Count(hiddenFileInput.val.files, fired[k].rec) = 1
           /\ fired[k].rec \notin Range(DeletedRecords)
           /\ fired[k].rec \notin Range(hiddenDeletedInput.val.files)

\* C4 as stated: a prevented lifecycle event's handler is a no-op; in
\* particular it fires no further event.
C4_PreventedHandlerFiresNothing ==
    \A k \in 1..Len(fired) :
        (fired[k].ev \in LifecycleEvents /\ fired[k].prevented)
        => \A m \in 1..Len(fired) : fired[m].by # fired[k].ev

\* The handlers that recompute the drag handles and the start/cancel buttons.
TogglingEvents == {"added", "failed", "completed", "destroyed"}

Toggled == \E k \in 1..Len(fired) : Ran(k, TogglingEvents) /\ Settled(k)

\* C5: after the handling of a lifecycle event the drag handles of the files
\* container are hidden when it holds exactly one item and visible when it
\* holds two or more.
C5_HandleVisibility ==
    Toggled =>
        /\ Len(filesContainer) = 1 => filesContainer[1].handleHidden
        /\ Len(filesContainer) >= 2
              => \A i \in 1..Len(filesContainer) : ~filesContainer[i].handleHidden

C5_Witness ==
    /\ Toggled
    /\ Len(filesContainer) = 1
    /\ filesContainer[1].handleHidden

\* C6: after the handling of a lifecycle event the start and cancel controls
\* are disabled and hidden iff the files container holds no template-upload
\* item.
C6_StartCancelButtons ==
    Toggled =>
        /\ buttonBar.startCancelDisabled = buttonBar.startCancelDisplayNone
        /\ buttonBar.startCancelDisabled
              <=> ~\E i \in 1..Len(filesContainer) : filesContainer[i].cls = "upload"

C6_Witness ==
    /\ Toggled
    /\ Len(filesContainer) = 2
    /\ buttonBar.startCancelDisabled
    /\ buttonBar.startCancelDisplayNone

\* C7 as stated: after every drag-reorder, whatever sortableOptions the caller
\* supplied, sortableUpdate re-fires completed and finished and the kept input
\* lists the records in the new DOM order.
C7_ReorderAlwaysSerialised ==
    (listener = {} /\ \E k \in 1..Len(fired) : fired[k].ev = "sortupdate")
    => /\ \E k \in 1..Len(fired) :
             fired[k].ev = "completed" /\ fired[k].by = "sortableUpdate"
       /\ \E k \in 1..Len(fired) :
             fired[k].ev = "finished" /\ fired[k].by = "sortableUpdate"
       /\ hiddenFileInput.val = TextOf(DownloadRecords(filesContainer))

\* C7 when the caller's sortableOptions leaves the update callback alone.
ReorderSerialisedUnlessReplaced ==
    ("update" \notin DOMAIN sortableOptions /\ listener = {}
     /\ \E k \in 1..Len(fired) : fired[k].ev = "sortupdate")
    => /\ \E k \in 1..Len(fired) :
             fired[k].ev = "completed" /\ fired[k].by = "sortableUpdate"
       /\ \E k \in 1..Len(fired) :
             fired[k].ev = "finished" /\ fired[k].by = "sortableUpdate"
       /\ hiddenFileInput.val = TextOf(DownloadRecords(filesContainer))

\* C8 as stated: the auto-hide timer of a successful crop POST hides the modal
\* only if no newer modal session has started since the commit that scheduled
\* it: a timer of an earlier session never hides the modal of a later one.
C8_TimerHidesOwnSessionOnly ==
    lastHide.by = "timer" => lastHide.of = lastHide.at

\* C9 as stated: while a crop POST is in flight the crop buttons are disabled
\* and no second crop POST is issued, whatever the user clicks, drags, closes
\* and re-opens.
C9_OnePostInFlight ==
    /\ Len(ajax) <= 1
    /\ ajax # <<>> => cropperButtons.rotate /\ cropperButtons.status

\* C9 within the modal session that issued the POST.
OnePostInFlightPerSession ==
    /\ \A k, m \in 1..Len(ajax) : ajax[k].session = ajax[m].session => k = m
    /\ \A k \in 1..Len(ajax) :
          (ajax[k].session = session /\ editModal.state \in {"shown", "hiding"})
          => cropperButtons.rotate /\ cropperButtons.status

\* The user can act on the cropper or on a crop button.
CanInteract ==
    \/ ~cropperButtons.rotate
    \/ ~cropperButtons.status
    \/ editImg.cropper.exists /\ editImg.cropper.ready /\ ~editImg.cropper.disabled

\* C10 as stated: after a failed crop POST (the modal of its session still
\* shown) no done or completed event was fired, the server's error message is
\* in the message box, and the crop buttons and the cropper can be used again
\* without closing the modal.
C10_FailedPostRestores ==
    (/\ Len(fired) = 1
     /\ fired[1].ev = "ajaxError"
     /\ fired[1].session = session
     /\ editModal.state = "shown")
    => /\ \A k \in 1..Len(fired) : fired[k].ev \notin {"done", "completed"}
       /\ messageBox = [cls |-> "alert-danger", session |-> session]
       /\ CanInteract

\* The value _fillIn writes for a list of records: "" for the empty list and
\* the JSON array otherwise, passed through the caller's function if any.
Written(files) ==
    LET text == IF Len(files) = 0 THEN EmptyString ELSE JSONstringify(files)
    IN IF inputDataFunction = "caller" THEN CallerFunction(text) ELSE text

\* C11: whenever the hidden inputs have been written (a completed event was
\* handled), each input holds filesDataToInputDataFunction (the identity when
\* the caller supplies none) applied to "" for an empty set and to the JSON
\* array for a non-empty set; the JSON text of the empty array is never what
\* the function is applied to.
C11_WrittenValue ==
    (\E k \in 1..Len(fired) : Ran(k, {"completed"}) /\ Settled(k))
    => /\ hiddenFileInput.val = Written(DownloadRecords(filesContainer))
       /\ hiddenDeletedInput.val = Written(DeletedRecords)
       /\ \A v \in {hiddenFileInput.val, hiddenDeletedInput.val} :
             /\ v # JSONstringify(<<>>)
             /\ v # CallerFunction(JSONstringify(<<>>))

\* A caller-supplied function has been applied to "" (no kept file) and to a
\* JSON array (one deleted file) by the same completed event.
C11_Witness ==
    /\ inputDataFunction = "caller"
    /\ \E k \in 1..Len(fired) : Ran(k, {"completed"}) /\ Settled(k)
    /\ hiddenFileInput.val = CallerFunction(EmptyString)
    /\ hiddenDeletedInput.val = CallerFunction(JSONstringify(<<1>>))

\* The number of writes of each hidden input by the last task: one per handled
\* completed event.
Writes == Cardinality({k \in 1..Len(fired) : Ran(k, {"completed"})})

\* The number of inputChanged notifications the last task fired for an input.
Notified(input) ==
    Cardinality({k \in 1..Len(fired) :
                    fired[k].ev = "inputChanged" /\ fired[k].by = input})

\* C12: for each hidden input, a task that writes it n > 0 times leaves it
\* without the mark "initializing" and fires n inputChanged notifications for
\* it, less one if the input carried the mark before the task (the first
\* write is the silent one); the mark never comes back, so the suppression
\* happens once per input.
C12_InitializingOnce ==
    [][ /\ Writes' > 0 =>
            /\ ~hiddenFileInput'.initializing
            /\ ~hiddenDeletedInput'.initializing
            /\ Notified("kept")' =
                   Writes' - (IF hiddenFileInput.initializing THEN 1 ELSE 0)
            /\ Notified("del")' =
                   Writes' - (IF hiddenDeletedInput.initializing THEN 1 ELSE 0)
        /\ Writes' = 0 =>
            /\ hiddenFileInput'.initializing = hiddenFileInput.initializing
            /\ hiddenDeletedInput'.initializing = hiddenDeletedInput.initializing
            /\ Notified("kept")' = 0 /\ Notified("del")' = 0
      ]_vars

\* The first write of the kept input was silent while the deleted input,
\* rendered without the mark, was notified by the same completed event.
C12_Witness ==
    /\ Writes = 1
    /\ Notified("kept") = 0 /\ ~hiddenFileInput.initializing
    /\ Notified("del") = 1

\* No record is listed by both texts.
Exclusive(keptVal, deletedVal) == Range(keptVal.files) \cap Range(deletedVal.files) = {}

\* Between two tasks no record is in both hidden inputs.
ExclusiveBetweenTasks == Exclusive(hiddenFileInput.val, hiddenDeletedInput.val)

\* C13: no record is in both hidden inputs, neither between two tasks nor in
\* the state an inputChanged listener of the kept input sees: in a task that
\* handles one completed event that state is the kept input as the task
\* leaves it with the deleted input as the task found it.
C13_KeptDeletedExclusive ==
    [][ listener = {} =>
          /\ Exclusive(hiddenFileInput'.val, hiddenDeletedInput'.val)
          /\ (Writes' = 1 /\ Notified("kept")' = 1)
                => Exclusive(hiddenFileInput'.val, hiddenDeletedInput.val)
      ]_vars

\* Between two tasks no record is in both hidden inputs unless a deleted node
\* was undeleted twice.
ExclusiveBetweenTasksUnlessRepeated ==
    (reclicked = {} /\ listener = {}) => ExclusiveBetweenTasks

\* The kept input after the task lists what it listed before it, with the
\* record new in place of one record.
ReplacedInPlace(new) ==
    /\ Len(hiddenFileInput'.val.files) = Len(hiddenFileInput.val.files)
    /\ \E i \in 1..Len(hiddenFileInput.val.files) :
          /\ hiddenFileInput.val.files[i] # new
          /\ hiddenFileInput'.val.files =
                 [hiddenFileInput.val.files EXCEPT ![i] = new]

\* The task is the completion (completed handled) of a done event that a crop
\* response synthesised for the record new.
CropCompleted(new) ==
    \E k \in 1..Len(fired') :
        /\ fired'[k].ev = "completed" /\ fired'[k].by = "crop-done"
        /\ fired'[k].rec = new

\* C14: a successful crop POST synthesises exactly one done event, which
\* carries the server's record; when the completion path of that event has
\* run, the kept input holds the server's record in the position of the
\* edited item and lists as many records as before.
C14_CropDoneReplacesInPlace ==
    [][ /\ (\E k \in 1..Len(fired') : fired'[k].ev = "ajaxSuccess")
            => Cardinality({k \in 1..Len(fired') :
                               fired'[k].ev = "done" /\ fired'[k].by = "ajax"}) = 1
        /\ \A new \in 1..(MaxItems + 2 * MaxSessions + 2) :
              CropCompleted(new) => ReplacedInPlace(new)
      ]_vars

\* The same as long as the page has seen one edit click only: the response
\* and its completion come before the modal is opened again.
CropDoneReplacesInPlaceFirstSession ==
    [][ session' = 1 =>
          /\ (\E k \in 1..Len(fired') : fired'[k].ev = "ajaxSuccess")
              => Cardinality({k \in 1..Len(fired') :
                                 fired'[k].ev = "done" /\ fired'[k].by = "ajax"}) = 1
          /\ \A new \in 1..(MaxItems + 2 * MaxSessions + 2) :
                CropCompleted(new) => ReplacedInPlace(new)
      ]_vars

\* The deleted templates whose transition, started by destroyed, is pending.
PendingDestroyed ==
    Cardinality({j \in 1..Len(deletedFilesContainer) :
                    "destroyed" \in Range(deletedFilesContainer[j].cbs)})

\* The destroyed events the last task handled.
HandledDestroyed == Cardinality({k \in 1..Len(fired) : Ran(k, {"destroyed"})})

IsDestroyedCompletion(e) ==
    e.by = "destroyed" /\ e.ev \in {"completed", "finished", "post-destroy"}

\* The events the last task fired from the callback of a deleted template's
\* transition, in order.
DestroyedCompletion ==
    LET evs == SelectSeq(fired, IsDestroyedCompletion)
    IN [k \in 1..Len(evs) |-> evs[k].ev]

\* C15: a task that handles a destroyed event appends the deleted template of
\* its record; completed, finished and post-destroy are fired once each, in
\* that order, by the callback of that template's transition and by nothing
\* else, so every handled destroyed event is pending until that callback has
\* fired the three; when the transition is a CSS transition the task that
\* handles destroyed fires none of them and leaves both hidden inputs as they
\* were; the deleted input written by that completed event lists the record.
C15_DestroyedCompletion ==
    [][ /\ DestroyedCompletion' \in {<<>>, <<"completed", "finished", "post-destroy">>}
        /\ PendingDestroyed' = PendingDestroyed + HandledDestroyed'
                                - (IF DestroyedCompletion' = <<>> THEN 0 ELSE 1)
        /\ HandledDestroyed' > 0 =>
              /\ HandledDestroyed' = 1
              /\ Len(deletedFilesContainer') = Len(deletedFilesContainer) + 1
              /\ \E k \in 1..Len(fired') :
                    /\ fired'[k].ev = "destroyed"
                    /\ deletedFilesContainer'[Len(deletedFilesContainer')].rec
                          = fired'[k].rec
              /\ cssTransition =>
                    /\ DestroyedCompletion' = <<>>
                    /\ Writes' = 0
                    /\ hiddenFileInput' = hiddenFileInput
                    /\ hiddenDeletedInput' = hiddenDeletedInput
              /\ ~cssTransition => DestroyedCompletion' # <<>>
        /\ \A k \in 1..Len(fired') :
              (IsDestroyedCompletion(fired'[k]) /\ fired'[k].ev = "completed"
               /\ ~fired'[k].prevented)
              => fired'[k].rec \in Range(hiddenDeletedInput'.val.files)
      ]_vars

\* The transition of a deleted template has ended in a task of its own, its
\* callback has fired the three events and the deleted input lists the record.
C15_Witness ==
    /\ cssTransition
    /\ DestroyedCompletion = <<"completed", "finished", "post-destroy">>
    /\ HandledDestroyed = 0
    /\ hiddenDeletedInput.val.files # <<>>

\* The last task handled an undelete event for the record rec and the
\* completed event the handler fires was handled too.
UndeleteCompleted(rec) ==
    \E k \in 1..Len(fired) : \E m \in (k + 1)..Len(fired) :
        /\ Ran(k, {"undelete"}) /\ fired[k].rec = rec
        /\ Ran(m, {"completed"}) /\ fired[m].by = "undelete"

\* The deleted container holds no template of rec and the deleted input does
\* not list rec.
GoneFromDeleted(rec) ==
    /\ \A j \in 1..Len(deletedFilesContainer) : deletedFilesContainer[j].rec # rec
    /\ rec \notin Range(hiddenDeletedInput.val.files)

\* C16: when an undelete event has been handled, the deleted template was
\* removed before completed was fired: after the task the node is gone and the
\* deleted input, re-serialised by that completed event, does not list the
\* undeleted record.
C16_UndeleteRemovesFirst ==
    (listener = {} /\ reclicked = {})
    => \A rec \in 1..MaxItems : UndeleteCompleted(rec) => GoneFromDeleted(rec)

\* The same on a page without CSS transitions, where the transition of the
\* node resolves inside the handler.
UndeleteRemovesFirstWithoutTransition ==
    (listener = {} /\ ~cssTransition)
    => \A rec \in 1..MaxItems : UndeleteCompleted(rec) => GoneFromDeleted(rec)

\* The records a cropped blob can be re-submitted for.
CropRecs == 1..(MaxCropItems + 2 * MaxSessions + 2)

\* The index of the template-upload item of the record old, 0 when it is not
\* in the files container.
OldNode(old) == UploadNode(State, old)

\* The step is the crop commit of the upload item of the record old.
CropCommitted(old) ==
    /\ old \notin {blobs[k].rec : k \in 1..Len(blobs)}
    /\ old \in {blobs'[k].rec : k \in 1..Len(blobs')}

\* The step handles the added event of the blob re-submitted for old.
BlobAdded(old) ==
    /\ old \in {blobs[k].rec : k \in 1..Len(blobs)}
    /\ old \notin {blobs'[k].rec : k \in 1..Len(blobs')}
    /\ \E k \in 1..Len(fired') : Ran(k, {"added"})'

\* The new item is where the old item was, the old item is gone, the new
\* item's replaceChild is cleared and the container holds as many items as
\* before.
InOwnSlot(old) ==
    /\ OldNode(old) # 0
    /\ Len(filesContainer') = Len(filesContainer)
    /\ OldNode(old)' = 0
    /\ \E k \in 1..Len(fired') :
          /\ Ran(k, {"added"})'
          /\ filesContainer'[OldNode(old)].rec = fired'[k].rec
          /\ filesContainer'[OldNode(old)].cls = "upload"
    /\ filesContainer'[OldNode(old)].replaceChild = 0
    /\ \A i \in 1..Len(filesContainer) :
          i # OldNode(old) => filesContainer'[i].rec = filesContainer[i].rec

\* C17: an upload-mode crop commit leaves the committed item in the files
\* container marked processing and the number of items unchanged; when the
\* added event of the re-submitted blob is handled, the new item takes the old
\* item's position, the old item is removed, replaceChild is cleared and the
\* container holds as many items as before.
C17_ReplaceInOwnSlot ==
    [][ listener = {} =>
          \A old \in CropRecs :
              /\ CropCommitted(old) =>
                    /\ Len(filesContainer') = Len(filesContainer)
                    /\ OldNode(old)' # 0 => filesContainer'[OldNode(old)'].processing
              /\ BlobAdded(old) => InOwnSlot(old)
      ]_vars

\* The same for the commits whose item is still in the files container when
\* the added event of the blob is handled.
ReplaceInOwnSlotWhileAttached ==
    [][ listener = {} =>
          \A old \in CropRecs :
              /\ CropCommitted(old) =>
                    /\ Len(filesContainer') = Len(filesContainer)
                    /\ OldNode(old)' # 0 => filesContainer'[OldNode(old)'].processing
              /\ (BlobAdded(old) /\ OldNode(old) # 0) => InOwnSlot(old)
      ]_vars

\* An item of the files container carries the record rec and is marked
\* processing.
Marked(rec) ==
    \E i \in 1..Len(filesContainer) :
        filesContainer[i].rec = rec /\ filesContainer[i].processing

\* C18: every item marked processing by an upload-mode crop commit eventually
\* is replaced (it leaves the files container) or loses the mark, also when
\* the re-submitted blob is rejected before added is triggered; no item stays
\* marked forever.
C18_ProcessingIsTransient ==
    listener = {} => \A rec \in 1..MaxCropItems : Marked(rec) ~> ~Marked(rec)

\* An item marked processing, with its buttons disabled, for which no toBlob
\* callback is pending: no handler of the page will touch it again.
MarkedAndAbandoned ==
    \E i \in 1..Len(filesContainer) :
        /\ filesContainer[i].processing /\ filesContainer[i].btnDisabled
        /\ filesContainer[i].rec \notin {blobs[k].rec : k \in 1..Len(blobs)}

\* The modal is shown, its cropper is ready and the last task was a crop
\* gesture or a click on a toolbar button.
AfterGestureOrCommand ==
    /\ editModal.state = "shown"
    /\ editImg.cropper.exists /\ editImg.cropper.ready
    /\ \E k \in 1..Len(fired) :
          /\ fired[k].ev = "modalinprogessstatus"
          /\ fired[k].by \in {"cropend", "click"}

\* C19: in an open session with a ready cropper, after every crop gesture and
\* every toolbar command (rotate, reset, scaleX, scaleY) the status buttons
\* are enabled if and only if the current crop data differs from the data
\* recorded when the cropper became ready.
C19_StatusIffChanged ==
    AfterGestureOrCommand
    => (~cropperButtons.status <=> editImg.cropper.data # closure.croppStartingData)

\* The same in the states in which the scale factors are those recorded when
\* the cropper became ready.
StatusIffChangedUnlessScaled ==
    (/\ AfterGestureOrCommand
     /\ editImg.cropper.data.scaleX = closure.croppStartingData.scaleX
     /\ editImg.cropper.data.scaleY = closure.croppStartingData.scaleY)
    => (~cropperButtons.status <=> editImg.cropper.data # closure.croppStartingData)

\* C20: the options the sortable is created with are the default set with
\* every option of the caller's sortableOptions in place of the default of
\* the same name, and the caller's other options added, except handle, which
\* is the widget's sortableHandleSelector (the caller's selector, or
\* ".sortableHandle" when the caller gives none) whatever handle the caller's
\* sortableOptions holds.
C20_SortableOptionsMerged ==
    [][ (sortable'.created /\ ~sortable.created) =>
          /\ DOMAIN sortable'.options =
                 DOMAIN defaultSortableOptions("") \cup DOMAIN sortableOptions
          /\ \A name \in DOMAIN sortable'.options \ {"handle"} :
                sortable'.options[name] =
                    IF name \in DOMAIN sortableOptions THEN sortableOptions[name]
                    ELSE defaultSortableOptions("")[name]
          /\ sortable'.options.handle = sortableHandleSelector'.selector
          /\ sortable'.options.handle =
                 IF sortableHandleSelector.kind = "undefined" THEN ".sortableHandle"
                 ELSE sortableHandleSelector.selector
      ]_vars

\* A sortable created for a caller who supplied axis and an option the
\* defaults do not have, and a handle selector of their own.
C20_Witness ==
    /\ sortable.created
    /\ sortable.options.axis = "caller"
    /\ "revert" \in DOMAIN sortable.options
    /\ sortable.options.delay = "500"
    /\ sortable.options.handle = ".caller-handle"

\* The button bar bar as _toggleFileuploadButtonBarButtonDisplay and
\* _toggleFileuploadButtonBarDelete leave it for the files container files.
BarRecomputed(files, bar) ==
    LET noUpload == ~\E i \in 1..Len(files) : files[i].cls = "upload"
        noFile == ~\E i \in 1..Len(files) :
                      files[i].cls = "download" /\ ~files[i].processing
    IN /\ bar.startCancelDisplayNone = noUpload
       /\ bar.startCancelDisabled = noUpload
       /\ bar.deleteDisplayNone = noFile

ButtonBarRecomputed == BarRecomputed(filesContainer, buttonBar)

\* C21: with enableSortable false the failed, completed and destroyed handlers
\* run to completion: after a task whose last handled event is one of them the
\* button bar is recomputed, and every handled completed event is followed by
\* post_completed and leaves both hidden inputs re-serialised.
C21_HandlersCompleteWithoutSortable ==
    ~enableSortable =>
        /\ (\E k \in 1..Len(fired) :
                Ran(k, {"failed", "completed", "destroyed"}) /\ Settled(k))
              => ButtonBarRecomputed
        /\ \A k \in 1..Len(fired) : Ran(k, {"completed"}) =>
              /\ \E m \in (k + 1)..Len(fired) :
                    fired[m].ev = "post_completed" /\ fired[m].by = "completed"
              /\ Settled(k) =>
                    /\ hiddenFileInput.val = TextOf(DownloadRecords(filesContainer))
                    /\ hiddenDeletedInput.val = TextOf(DeletedRecords)

\* With enableSortable false the added handler, which does not chain the
\* toggles, recomputes the start and cancel buttons.
AddedCompletesWithoutSortable ==
    (~enableSortable /\ \E k \in 1..Len(fired) : Ran(k, {"added"}) /\ Settled(k))
    => /\ buttonBar.startCancelDisabled = buttonBar.startCancelDisplayNone
       /\ buttonBar.startCancelDisabled
             <=> ~\E i \in 1..Len(filesContainer) : filesContainer[i].cls = "upload"

\* With enableSortable false no post_completed event is ever fired and
\* neither hidden input is ever written.
NeverSerialisedWithoutSortable ==
    ~enableSortable =>
        /\ \A k \in 1..Len(fired) : fired[k].ev # "post_completed"
        /\ hiddenFileInput.val = EmptyString
        /\ hiddenDeletedInput.val = EmptyString

\* The done events with the record rec that undelete transition callbacks
\* fired in the last task.
RestoredBy(rec) ==
    {k \in 1..Len(fired) :
        fired[k].ev = "done" /\ fired[k].by = "undelete" /\ fired[k].rec = rec}

\* The download templates of the files container that carry the record rec.
Restored(rec) ==
    {i \in 1..Len(filesContainer) :
        filesContainer[i].cls = "download" /\ filesContainer[i].rec = rec}

\* The records of the page's items and of the kept input.
PageRecs == UsedRecs(State) \cup Range(hiddenFileInput.val.files)

\* C22: each deleted item is restored at most once, also when its undelete
\* button is clicked again before its removal transition has finished: the
\* transition's end fires one done event with the record, the files container
\* gets one download template for it and the kept input lists it once.
C22_RestoredAtMostOnce ==
    \A rec \in PageRecs \ {0} :
        /\ Cardinality(RestoredBy(rec)) <= 1
        /\ Cardinality(Restored(rec)) <= 1
        /\ Count(hiddenFileInput.val.files, rec) <= 1

\* C22 for the records whose deleted item was not clicked a second time
\* while its transition was running.
RestoredAtMostOnceUnlessRepeated ==
    \A rec \in PageRecs \ ({0} \cup reclicked) :
        /\ Cardinality(RestoredBy(rec)) <= 1
        /\ Cardinality(Restored(rec)) <= 1
        /\ Count(hiddenFileInput.val.files, rec) <= 1

\* The drag handles as toggleFileuploadSortableHandle leaves them.
HandlesRecomputed(files) ==
    \A i \in 1..Len(files) : files[i].handleHidden <=> Len(files) <= 1

\* The page seen holds in both hidden inputs the text of its own items.
Serialised(seen) ==
    /\ seen.kept.val = TextOf(DownloadRecords(seen.files))
    /\ seen.del.val =
          TextOf([j \in 1..Len(seen.deleted) |-> seen.deleted[j].rec])

\* The event n belongs to the handling of the completed event k: no other
\* completed event lies between them.
Within(k, n) ==
    /\ n > k
    /\ \A c \in (k + 1)..n : fired[c].ev # "completed"

\* C23: within the handling of one completed event the buttons and handles
\* are recomputed, then post_completed is fired (its listener finds them
\* recomputed and both inputs as they were), then the kept input is written
\* (its inputChanged listener finds the deleted input as it was), then the
\* deleted input; and when destroyed, undelete or sortableUpdate fire finished
\* after completed, the listener of finished finds both inputs re-serialised.
C23_CompletedOrder ==
    "observer" \in listener =>
      \A k \in 1..Len(fired) : Ran(k, {"completed"}) =>
        /\ k + 1 <= Len(fired)
        /\ fired[k + 1].ev = "post_completed"
        /\ BarRecomputed(fired[k + 1].sees.files, fired[k + 1].sees.bar)
        /\ HandlesRecomputed(fired[k + 1].sees.files)
        /\ fired[k + 1].sees.kept = fired[k].sees.kept
        /\ fired[k + 1].sees.del = fired[k].sees.del
        /\ \A n \in 1..Len(fired) : Within(k, n) =>
              /\ (fired[n].ev = "inputChanged" /\ fired[n].by = "kept")
                    => /\ fired[n].sees.kept.val =
                             TextOf(DownloadRecords(fired[n].sees.files))
                       /\ fired[n].sees.del = fired[k].sees.del
              /\ (fired[n].ev = "inputChanged" /\ fired[n].by = "del")
                    => Serialised(fired[n].sees)
              /\ (fired[n].ev = "finished"
                  /\ fired[n].by \in {"destroyed", "undelete", "sortableUpdate"})
                    => /\ Serialised(fired[n].sees)
                       /\ ~fired[n].sees.kept.initializing
                       /\ ~fired[n].sees.del.initializing

\* A reorder whose completed event was followed by post_completed, by the
\* write of the kept input and of the deleted input, and by finished.
C23_Witness ==
    /\ "observer" \in listener
    /\ \E k \in 1..Len(fired) :
          /\ Ran(k, {"completed"}) /\ fired[k].by = "sortableUpdate"
          /\ Len(fired) = k + 4
          /\ fired[k + 2].ev = "inputChanged" /\ fired[k + 2].by = "kept"
          /\ fired[k + 3].ev = "inputChanged" /\ fired[k + 3].by = "del"
          /\ fired[k + 4].ev = "finished"
          /\ fired[k + 2].sees.kept # fired[k].sees.kept

\* The step is a click on the edit button of the pending-upload item i whose
\* upload data is absent or names no original file of the item's file name.
EditClickWithoutData(i) == editHandlerNoData(i)

\* C24 as stated: a click on the edit button of a pending-upload item without
\* upload data, or whose file name matches no original file, is a no-op: the
\* modal is not opened, no cropper callback is installed, the files list and
\* the hidden inputs are unchanged.
C24_EditWithoutDataIsNoOp ==
    [][ \A i \in 1..MaxItems : EditClickWithoutData(i) =>
          /\ UNCHANGED <<editModal, session, editImg, closure>>
          /\ UNCHANGED <<filesContainer, deletedFilesContainer>>
          /\ UNCHANGED <<hiddenFileInput, hiddenDeletedInput>>
      ]_vars

\* C24 amended: such a click opens no modal, installs no cropper callback,
\* fires no event and leaves the hidden inputs, the deleted container and the
\* items of the files list as they are, except that the clicked edit button
\* becomes disabled when the upload data is absent.
C24_EditWithoutDataOpensNothing ==
    [][ \A i \in 1..MaxItems : EditClickWithoutData(i) =>
          /\ UNCHANGED <<editModal, session, editImg, closure>>
          /\ UNCHANGED <<deletedFilesContainer, hiddenFileInput, hiddenDeletedInput>>
          /\ fired' = <<>>
          /\ filesContainer' =
                [filesContainer EXCEPT ![i].btnDisabled = (filesContainer[i].data = "absent")]
      ]_vars

\* The edit button of an item without upload data has been clicked: it is
\* disabled, no modal was opened and no callback installed.
C24_Witness ==
    /\ \E i \in 1..Len(filesContainer) :
          /\ filesContainer[i].cls = "upload"
          /\ filesContainer[i].data = "absent"
          /\ filesContainer[i].btnDisabled
    /\ editModal.state = "hidden"
    /\ session = 0
    /\ editImg.processCroppedCanvas = 0

\* C25: a destroyed event whose data carries no context, so that no file
\* record is collected, adds no node to the deleted container and no entry to
\* the deleted input: the deleted container holds no item without a file
\* record and the deleted input lists no empty record.
C25_NoContextAddsNothing ==
    /\ \A j \in 1..Len(deletedFilesContainer) : deletedFilesContainer[j].rec # 0
    /\ 0 \notin Range(hiddenDeletedInput.val.files)

\* C25 on the page whose listener prevents every destroyed event.
PreventedNoContextAddsNothing ==
    "destroyed" \in listener => C25_NoContextAddsNothing

====
